---- MODULE Spec2Model ----
(***************************************************************************)
(* Model of src/server.js: an Express service with an in-memory user       *)
(* collection (CRUD under /api/users) and an image upload endpoint         *)
(* (/api/upload, multer disk storage).                                     *)
(*                                                                         *)
(* Strings of a path segment are sequences of one-character strings so     *)
(* that Number.parseInt can be computed character by character.            *)
(*                                                                         *)
(* GET / and GET /health read and write none of the modelled state and     *)
(* are left out.                                                           *)
(***************************************************************************)
EXTENDS Integers, Sequences, FiniteSets, TLC

VARIABLES
    users,      \* server.js:43  the in-memory collection, a sequence of records
    prevUsers,  \* history: the collection when the observed request was received
    req,        \* history: the observed request ("NONE" between exchanges)
    res,        \* the response to the observed request
    created,    \* history: records returned by a create, with no update or
                \* delete addressed to their id since
    uploadsDir, \* server.js:10  the files of the uploads directory: path -> bytes
    up,         \* the upload requests: progress, file part, stream, response
    now,        \* Date.now()
    inflight,   \* requests on the collection in flight, each with its
                \* handler's position and local constants
    running,    \* the request whose handler is on the call stack, 0 if none
    order       \* history: the requests in the order their handlers began

crudVars == <<users, prevUsers, req, res, created>>
upVars == <<uploadsDir, up, now>>
concVars == <<inflight, running, order>>
vars == <<crudVars, upVars, concVars>>

----------------------------------------------------------------------------
(* Bounds *)

\* the create handler is not exercised beyond this collection size
MaxUsers == 4

\* upload requests followed
MaxUploads == 2

\* milliseconds the clock advances over
MaxClock == 1

\* create / update / delete requests in flight together
MaxRequests == 2

----------------------------------------------------------------------------
(* JavaScript values *)

\* a property absent from the JSON body destructures to undefined
Undefined == "<undefined>"

\* !v for the values a body field takes here: undefined and "" are falsy
Truthy(v) == v \notin {Undefined, ""}

\* values a body may carry for name / email
NameVals == {Undefined, "", "Ann"}
EmailVals == {Undefined, "", "ann@x.com"}

NoBody == [name |-> Undefined, email |-> Undefined]
Bodies == [name : NameVals, email : EmailVals]

\* placeholder for "no data field" in a response
NoData == [id |-> 0, name |-> "", email |-> ""]

----------------------------------------------------------------------------
(* Number.parseInt(string) with no radix argument, used on req.params.id   *)
(* at server.js:111, 155, 179: leading white space is skipped, one sign is *)
(* read, "0x" selects radix 16, and the longest prefix of digits is the    *)
(* value; no digit at all gives NaN.  Of the white space only the blank,   *)
(* and of the hexadecimal digits only the lower-case ones, occur in the    *)
(* segments tried here.                                                    *)

HexDigits == <<"0","1","2","3","4","5","6","7","8","9","a","b","c","d","e","f">>

IsDigit(c, radix) == \E i \in 1..radix : HexDigits[i] = c

DigitVal(c) == (CHOOSE i \in 1..Len(HexDigits) : HexDigits[i] = c) - 1

RECURSIVE StripLeft(_)
StripLeft(s) ==
    IF s # <<>> /\ Head(s) = " " THEN StripLeft(Tail(s)) ELSE s

\* the longest prefix of s made of digits of the radix
RECURSIVE DigitPrefix(_, _)
DigitPrefix(s, radix) ==
    IF s # <<>> /\ IsDigit(Head(s), radix)
    THEN <<Head(s)>> \o DigitPrefix(Tail(s), radix)
    ELSE <<>>

RECURSIVE DigitsValue(_, _)
DigitsValue(ds, radix) ==
    IF ds = <<>> THEN 0
    ELSE DigitsValue(SubSeq(ds, 1, Len(ds) - 1), radix) * radix + DigitVal(ds[Len(ds)])

NaN == [nan |-> TRUE, val |-> 0]

ParseInt(s) ==
    LET t == StripLeft(s)
        sign == IF t # <<>> /\ Head(t) = "-" THEN -1 ELSE 1
        u == IF t # <<>> /\ Head(t) \in {"+", "-"} THEN Tail(t) ELSE t
        hex == Len(u) >= 2 /\ u[1] = "0" /\ u[2] \in {"x", "X"}
        radix == IF hex THEN 16 ELSE 10
        v == IF hex THEN SubSeq(u, 3, Len(u)) ELSE u
        ds == DigitPrefix(v, radix)
    IN  IF ds = <<>> THEN NaN
        ELSE [nan |-> FALSE, val |-> sign * DigitsValue(ds, radix)]

\* u.id === id  (NaN is equal to nothing)
IdEq(uid, id) == ~id.nan /\ uid = id.val

\* users.findIndex((u) => u.id === id); 0 stands for JavaScript's -1
FindIndex(us, id) ==
    IF \E i \in 1..Len(us) : IdEq(us[i].id, id)
    THEN CHOOSE i \in 1..Len(us) :
            /\ IdEq(us[i].id, id)
            /\ \A j \in 1..(i - 1) : ~IdEq(us[j].id, id)
    ELSE 0

\* users.splice(i, 1)
Splice(us, i) == SubSeq(us, 1, i - 1) \o SubSeq(us, i + 1, Len(us))

----------------------------------------------------------------------------
(* Responses *)

Response(status, success, message, data, count, list) ==
    [status |-> status, success |-> success, message |-> message,
     data |-> data, count |-> count, list |-> list]

NotFound == Response(404, FALSE, "User not found", NoData, 0, <<>>)

----------------------------------------------------------------------------
(* The handlers as functions from (collection, request) to                 *)
(* (collection, response).                                                 *)

Result(us, r) == [users |-> us, res |-> r]

\* app.get("/api/users")
GetUsers(us) ==
    Result(us, Response(200, TRUE, "", NoData, Len(us), us))

\* app.get("/api/users/:id")
GetUser(us, seg) ==
    LET id == ParseInt(seg)
        i == FindIndex(us, id)
    IN  IF i = 0 THEN Result(us, NotFound)
        ELSE Result(us, Response(200, TRUE, "", us[i], 0, <<>>))

NewUserIdIsLength(us, body) ==
    [id |-> Len(us), name |-> body.name, email |-> body.email]

\* the record built at server.js:138-142
NewUser(us, body) ==
    [id |-> Len(us) + 1, name |-> body.name, email |-> body.email]

\* app.post("/api/users")
PostUser(us, body) ==
    IF ~Truthy(body.name) \/ ~Truthy(body.email)
    THEN Result(us, Response(400, FALSE, "Name and email are required", NoData, 0, <<>>))
    ELSE LET newUser == NewUser(us, body)
         IN  Result(Append(us, newUser),
                    Response(201, TRUE, "User created successfully", newUser, 0, <<>>))

AssignFieldsUnconditionally(u, body) ==
    [u EXCEPT !.name = body.name, !.email = body.email]

AssignFieldsWhenDefined(u, body) ==
    [u EXCEPT !.name = IF body.name # Undefined THEN body.name ELSE @,
              !.email = IF body.email # Undefined THEN body.email ELSE @]

\* server.js:167-168  if (name) ... if (email) ...
AssignFields(u, body) ==
    [u EXCEPT !.name = IF Truthy(body.name) THEN body.name ELSE @,
              !.email = IF Truthy(body.email) THEN body.email ELSE @]

\* app.put("/api/users/:id")
PutUser(us, seg, body) ==
    LET id == ParseInt(seg)
        userIndex == FindIndex(us, id)
    IN  IF userIndex = 0 THEN Result(us, NotFound)
        ELSE LET us2 == [us EXCEPT ![userIndex] = AssignFields(us[userIndex], body)]
             IN  Result(us2, Response(200, TRUE, "User updated successfully",
                                      us2[userIndex], 0, <<>>))

DeleteUserUnchecked(us, seg) ==
    LET id == ParseInt(seg)
        userIndex == FindIndex(us, id)
        at == IF userIndex = 0 THEN Len(us) ELSE userIndex
    IN  IF userIndex = 0 THEN Result(Splice(us, at), NotFound)
        ELSE Result(Splice(us, at),
                    Response(200, TRUE, "User deleted successfully", us[at], 0, <<>>))

\* app.delete("/api/users/:id")
DeleteUser(us, seg) ==
    LET id == ParseInt(seg)
        userIndex == FindIndex(us, id)
    IN  IF userIndex = 0 THEN Result(us, NotFound)
        ELSE Result(Splice(us, userIndex),
                    Response(200, TRUE, "User deleted successfully",
                             us[userIndex], 0, <<>>))

\* app.use("*")
RouteNotFound(us) ==
    Result(us, Response(404, FALSE, "Route not found", NoData, 0, <<>>))

----------------------------------------------------------------------------------------------------------------------------------------------------
(* POST /api/upload: upload.single("image") with disk storage, then the     *)
(* route's handler or its error handler.  The file part is streamed to the *)
(* destination in pieces; several uploads can be in progress at once.      *)

\* server.js:27
FileSizeLimit == 5 * 1024 * 1024

\* the size of the pieces a file part arrives in
ChunkBytes == 4 * 1024 * 1024

\* server.js:30
AllowedTypes == {"image/jpeg", "image/png", "image/gif"}

\* what a client may declare and send
MimeTypes == AllowedTypes \cup {"application/pdf"}
FileSizes == {0, 1, FileSizeLimit, FileSizeLimit + 1}
OriginalNames == {"a.png", "b.png"}

\* server.js:28-36  whether the filter accepts the file
FileFilter(mimetype) == mimetype \in AllowedTypes

\* server.js:20-22  Date.now() + "-" + file.originalname, under uploadsDir
Filename(t, originalname) == [ts |-> t, name |-> originalname]

NoPath == [ts |-> 0, name |-> ""]
NoFile == [filename |-> NoPath, mimetype |-> "", size |-> 0, path |-> NoPath]

UploadResponse(status, success, message, file) ==
    [status |-> status, success |-> success, message |-> message, file |-> file]

NoUploadResponse == UploadResponse(0, FALSE, "", NoFile)

\* pc: "idle" (not yet received), "writing" (file part being stored),
\*     "aborting" (limit hit, stored file to be removed), "done" (answered)
NoUpload ==
    [pc |-> "idle", hasFile |-> FALSE, mimetype |-> "", size |-> 0,
     originalname |-> "", path |-> NoPath, written |-> 0, linked |-> FALSE,
     res |-> NoUploadResponse, inDirAtResponse |-> FALSE]

Max(a, b) == IF a >= b THEN a ELSE b
Min(a, b) == IF a <= b THEN a ELSE b

\* fs.createWriteStream(path): the file is created, or truncated if it exists
OpenForWrite(dir, p) ==
    [q \in DOMAIN dir \cup {p} |-> IF q = p THEN 0 ELSE dir[q]]

\* fs.unlink(path)
Unlink(dir, p) == [q \in DOMAIN dir \ {p} |-> dir[q]]

\* the upload is received without a file part: req.file is undefined
UploadNoFile(r) ==
    /\ up[r].pc = "idle"
    /\ up' = [up EXCEPT ![r] = [@ EXCEPT
                !.pc = "done",
                !.res = UploadResponse(400, FALSE,
                           "No file uploaded or invalid file type.", NoFile)]]
    /\ UNCHANGED <<uploadsDir, now, crudVars, concVars>>

\* the file part begins and the filter refuses it: nothing is stored and the
\* error handler answers
UploadRejected(r) ==
    \E m \in MimeTypes, sz \in FileSizes, n \in OriginalNames :
        /\ up[r].pc = "idle"
        /\ ~FileFilter(m)
        /\ up' = [up EXCEPT ![r] = [@ EXCEPT
                    !.pc = "done", !.hasFile = TRUE, !.mimetype = m,
                    !.size = sz, !.originalname = n,
                    !.res = UploadResponse(400, FALSE,
                        "Invalid file type. Only JPEG, PNG, GIF are allowed.", NoFile)]]
        /\ UNCHANGED <<uploadsDir, now, crudVars, concVars>>

\* the file part begins and the filter accepts it: the destination file is
\* named and opened
UploadAccepted(r) ==
    \E m \in MimeTypes, sz \in FileSizes, n \in OriginalNames :
        /\ up[r].pc = "idle"
        /\ FileFilter(m)
        /\ LET p == Filename(now, n) IN
            /\ uploadsDir' = OpenForWrite(uploadsDir, p)
            /\ up' = [up EXCEPT ![r] = [@ EXCEPT
                        !.pc = "writing", !.hasFile = TRUE, !.mimetype = m,
                        !.size = sz, !.originalname = n, !.path = p,
                        !.written = 0, !.linked = TRUE]]
        /\ UNCHANGED <<now, crudVars, concVars>>

\* one piece of the file part is written; a piece that would pass the limit
\* is cut at the limit and the upload starts aborting
WriteChunk(r) ==
    /\ up[r].pc = "writing"
    /\ up[r].written < up[r].size
    /\ LET n == Min(ChunkBytes, up[r].size - up[r].written)
           over == up[r].written + n > FileSizeLimit
           w == IF over THEN FileSizeLimit ELSE up[r].written + n
       IN
        /\ up' = [up EXCEPT ![r] = [@ EXCEPT
                    !.written = w,
                    !.pc = IF over THEN "aborting" ELSE "writing"]]
        /\ uploadsDir' =
            IF up[r].linked
            THEN [uploadsDir EXCEPT ![up[r].path] = Max(@, w)]
            ELSE uploadsDir
    /\ UNCHANGED <<now, crudVars, concVars>>

\* the whole file part is written: req.file is set and the handler answers
UploadFinish(r) ==
    /\ up[r].pc = "writing"
    /\ up[r].written = up[r].size
    /\ up' = [up EXCEPT ![r] = [@ EXCEPT
                !.pc = "done",
                !.inDirAtResponse = up[r].path \in DOMAIN uploadsDir,
                !.res = UploadResponse(200, TRUE,
                    "Image uploaded and health checked successfully!",
                    [filename |-> up[r].path, mimetype |-> up[r].mimetype,
                     size |-> up[r].written, path |-> up[r].path])]]
    /\ UNCHANGED <<uploadsDir, now, crudVars, concVars>>

\* the stored file of an upload that passed the limit is removed, then the
\* error handler answers
UploadAbort(r) ==
    /\ up[r].pc = "aborting"
    /\ uploadsDir' = Unlink(uploadsDir, up[r].path)
    /\ up' = [q \in DOMAIN up |->
                IF q = r
                THEN [up[q] EXCEPT
                        !.pc = "done", !.linked = FALSE,
                        !.inDirAtResponse = FALSE,
                        !.res = UploadResponse(400, FALSE, "File too large", NoFile)]
                ELSE IF up[q].path = up[r].path
                THEN [up[q] EXCEPT !.linked = FALSE]
                ELSE up[q]]
    /\ UNCHANGED <<now, crudVars, concVars>>

\* a millisecond passes
Tick ==
    /\ now < MaxClock
    /\ now' = now + 1
    /\ UNCHANGED <<uploadsDir, up, crudVars, concVars>>

UploadNext ==
    \/ \E r \in 1..MaxUploads : UploadNoFile(r)
    \/ \E r \in 1..MaxUploads : UploadRejected(r)
    \/ \E r \in 1..MaxUploads : UploadAccepted(r)
    \/ \E r \in 1..MaxUploads : WriteChunk(r)
    \/ \E r \in 1..MaxUploads : UploadFinish(r)
    \/ \E r \in 1..MaxUploads : UploadAbort(r)
    \/ Tick

----------------------------------------------------------------------------
(* Requests *)

\* the decimal numeral of a one-digit id, as a path segment
Numeral(i) == <<HexDigits[i + 1]>>

\* :id path segments tried: the ids the create handler can assign, and
\* segments that are not decimal numerals
NumeralSegs == {Numeral(i) : i \in 1..MaxUsers}
OtherSegs == {<<"a","b","c">>, <<"2","a","b","c">>, <<"0","x","1">>,
              <<"0","x">>, <<"-","1">>, <<"-","a">>, <<" ","3">>, <<"+","2">>}
IdSegs == NumeralSegs \cup OtherSegs

NoSeg == <<>>

Request(method, path, seg, body) ==
    [method |-> method, path |-> path, seg |-> seg, body |-> body]

NoRequest == Request("NONE", "", NoSeg, NoBody)
NoResponse == Response(0, FALSE, "", NoData, 0, <<>>)

----------------------------------------------------------------------------
(* The create, update and delete handlers statement by statement, with       *)
(* several requests in flight.  A request is received and its body parsed   *)
(* asynchronously; its handler is then called.                              *)

\* pc: "idle", "queued" (received, handler not yet called), a position in
\*     the handler, "done" (answered)
NoCall ==
    [pc |-> "idle", req |-> NoRequest, userIndex |-> 0, newUser |-> NoData,
     deletedUser |-> NoData, res |-> NoResponse]

\* the requests sent concurrently
ConcSegs == {Numeral(1), Numeral(2), <<"a","b","c">>}
ConcBodies == {[name |-> "Ann", email |-> "ann@x.com"],
               [name |-> "Ann", email |-> Undefined],
               [name |-> Undefined, email |-> "ann@x.com"]}
ConcRequests ==
    {Request("POST", "/api/users", NoSeg, b) : b \in ConcBodies}
    \cup {Request("PUT", "/api/users/:id", sg, b) : sg \in ConcSegs, b \in ConcBodies}
    \cup {Request("DELETE", "/api/users/:id", sg, NoBody) : sg \in ConcSegs}

MayRunAnyTime(r) == TRUE

\* The handlers are synchronous functions without await or callbacks
\* (server.js:128-196): a handler is entered only when no other is on the
\* call stack, and runs until it has answered.
MayRun(r) == running \in {0, r}

At(r, pc) == inflight[r].pc = pc /\ MayRun(r)

Goto(r, pc) == [inflight EXCEPT ![r].pc = pc]

\* the request arrives
Arrive(r) ==
    \E q \in ConcRequests :
        /\ inflight[r].pc = "idle"
        /\ inflight' = [inflight EXCEPT ![r] = [@ EXCEPT !.pc = "queued", !.req = q]]
        /\ UNCHANGED <<users, running, order, prevUsers, req, res, created, upVars>>

\* the router calls the handler
Enter(r) ==
    /\ At(r, "queued")
    /\ running' = r
    /\ order' = Append(order, r)
    /\ inflight' = Goto(r, IF inflight[r].req.method = "POST" THEN "validate" ELSE "find")
    /\ UNCHANGED <<users, prevUsers, req, res, created, upVars>>

\* the handler answers and returns
Answer(r, response) ==
    /\ inflight' = [inflight EXCEPT ![r] = [@ EXCEPT !.pc = "done", !.res = response]]
    /\ running' = IF running = r THEN 0 ELSE running

\* server.js:129-136
PostValidate(r) ==
    /\ At(r, "validate")
    /\ IF ~Truthy(inflight[r].req.body.name) \/ ~Truthy(inflight[r].req.body.email)
       THEN Answer(r, Response(400, FALSE, "Name and email are required", NoData, 0, <<>>))
       ELSE inflight' = Goto(r, "build") /\ UNCHANGED running
    /\ UNCHANGED <<users, order, prevUsers, req, res, created, upVars>>

\* server.js:138-142
PostBuild(r) ==
    /\ At(r, "build")
    /\ inflight' = [inflight EXCEPT ![r] = [@ EXCEPT
                        !.pc = "push", !.newUser = NewUser(users, inflight[r].req.body)]]
    /\ UNCHANGED <<users, running, order, prevUsers, req, res, created, upVars>>

\* server.js:144
PostPush(r) ==
    /\ At(r, "push")
    /\ users' = Append(users, inflight[r].newUser)
    /\ inflight' = Goto(r, "created")
    /\ UNCHANGED <<running, order, prevUsers, req, res, created, upVars>>

\* server.js:146-150
PostRespond(r) ==
    /\ At(r, "created")
    /\ Answer(r, Response(201, TRUE, "User created successfully",
                          inflight[r].newUser, 0, <<>>))
    /\ UNCHANGED <<users, order, prevUsers, req, res, created, upVars>>

\* server.js:155-163 and 179-187
FindUser(r) ==
    /\ At(r, "find")
    /\ LET userIndex == FindIndex(users, ParseInt(inflight[r].req.seg)) IN
        IF userIndex = 0
        THEN Answer(r, NotFound)
        ELSE /\ inflight' = [inflight EXCEPT ![r] = [@ EXCEPT
                    !.userIndex = userIndex,
                    !.pc = IF inflight[r].req.method = "PUT" THEN "name" ELSE "splice"]]
             /\ UNCHANGED running
    /\ UNCHANGED <<users, order, prevUsers, req, res, created, upVars>>

\* users[userIndex].field = value, when users[userIndex] is still there
SetField(us, i, field, value) ==
    IF i \in 1..Len(us)
    THEN [us EXCEPT ![i] = IF field = "name" THEN [@ EXCEPT !.name = value]
                           ELSE [@ EXCEPT !.email = value]]
    ELSE us

\* server.js:167
PutName(r) ==
    /\ At(r, "name")
    /\ users' = IF Truthy(inflight[r].req.body.name)
                THEN SetField(users, inflight[r].userIndex, "name", inflight[r].req.body.name)
                ELSE users
    /\ inflight' = Goto(r, "email")
    /\ UNCHANGED <<running, order, prevUsers, req, res, created, upVars>>

\* server.js:168
PutEmail(r) ==
    /\ At(r, "email")
    /\ users' = IF Truthy(inflight[r].req.body.email)
                THEN SetField(users, inflight[r].userIndex, "email", inflight[r].req.body.email)
                ELSE users
    /\ inflight' = Goto(r, "updated")
    /\ UNCHANGED <<running, order, prevUsers, req, res, created, upVars>>

\* server.js:170-174
PutRespond(r) ==
    /\ At(r, "updated")
    /\ Answer(r, Response(200, TRUE, "User updated successfully",
                          IF inflight[r].userIndex \in 1..Len(users)
                          THEN users[inflight[r].userIndex] ELSE NoData, 0, <<>>))
    /\ UNCHANGED <<users, order, prevUsers, req, res, created, upVars>>

\* server.js:189
DeleteSplice(r) ==
    /\ At(r, "splice")
    /\ LET i == inflight[r].userIndex IN
        /\ users' = IF i \in 1..Len(users) THEN Splice(users, i) ELSE users
        /\ inflight' = [inflight EXCEPT ![r] = [@ EXCEPT
                            !.pc = "deleted",
                            !.deletedUser = IF i \in 1..Len(users) THEN users[i] ELSE NoData]]
    /\ UNCHANGED <<running, order, prevUsers, req, res, created, upVars>>

\* server.js:191-195
DeleteRespond(r) ==
    /\ At(r, "deleted")
    /\ Answer(r, Response(200, TRUE, "User deleted successfully",
                          inflight[r].deletedUser, 0, <<>>))
    /\ UNCHANGED <<users, order, prevUsers, req, res, created, upVars>>

ConcNext ==
    \/ \E r \in 1..MaxRequests : Arrive(r)
    \/ \E r \in 1..MaxRequests : Enter(r)
    \/ \E r \in 1..MaxRequests : PostValidate(r)
    \/ \E r \in 1..MaxRequests : PostBuild(r)
    \/ \E r \in 1..MaxRequests : PostPush(r)
    \/ \E r \in 1..MaxRequests : PostRespond(r)
    \/ \E r \in 1..MaxRequests : FindUser(r)
    \/ \E r \in 1..MaxRequests : PutName(r)
    \/ \E r \in 1..MaxRequests : PutEmail(r)
    \/ \E r \in 1..MaxRequests : PutRespond(r)
    \/ \E r \in 1..MaxRequests : DeleteSplice(r)
    \/ \E r \in 1..MaxRequests : DeleteRespond(r)

\* server.js:43-47
SeedUsers ==
    << [id |-> 1, name |-> "John Doe", email |-> "john@example.com"],
       [id |-> 2, name |-> "Jane Smith", email |-> "jane@example.com"],
       [id |-> 3, name |-> "Bob Johnson", email |-> "bob@example.com"] >>

Init ==
    /\ users = SeedUsers
    /\ prevUsers = SeedUsers
    /\ req = NoRequest
    /\ res = NoResponse
    /\ created = {}
    /\ uploadsDir = <<>>
    /\ up = [r \in 1..MaxUploads |-> NoUpload]
    /\ now = 0
    /\ inflight = [r \in 1..MaxRequests |-> NoCall]
    /\ running = 0
    /\ order = <<>>

\* the records still covered by "created and not modified or deleted since"
\* once request r has been answered with response out
Track(r, out) ==
    IF r.method = "POST" /\ out.status = 201
    THEN created \cup {out.data}
    ELSE IF r.method \in {"PUT", "DELETE"}
    THEN {c \in created : ~IdEq(c.id, ParseInt(r.seg))}
    ELSE created

\* one request handled to completion: every handler is a synchronous
\* function, and one exchange is observed at a time
Handle(r, out) ==
    /\ req = NoRequest
    /\ prevUsers' = users
    /\ req' = r
    /\ users' = out.users
    /\ res' = out.res
    /\ created' = Track(r, out.res)
    /\ UNCHANGED <<upVars, concVars>>

ListUsersReq ==
    Handle(Request("GET", "/api/users", NoSeg, NoBody), GetUsers(users))

GetUserReq ==
    \E seg \in IdSegs :
        Handle(Request("GET", "/api/users/:id", seg, NoBody), GetUser(users, seg))

CreateUserReq ==
    \E body \in Bodies :
        /\ Len(users) < MaxUsers
        /\ Handle(Request("POST", "/api/users", NoSeg, body), PostUser(users, body))

UpdateUserReq ==
    \E seg \in IdSegs, body \in Bodies :
        Handle(Request("PUT", "/api/users/:id", seg, body), PutUser(users, seg, body))

DeleteUserReq ==
    \E seg \in IdSegs :
        Handle(Request("DELETE", "/api/users/:id", seg, NoBody), DeleteUser(users, seg))

UnmatchedReq ==
    Handle(Request("GET", "*", NoSeg, NoBody), RouteNotFound(users))

\* the response reaches the client; the next exchange can be observed
Deliver ==
    /\ req # NoRequest
    /\ req' = NoRequest
    /\ res' = NoResponse
    /\ prevUsers' = users
    /\ UNCHANGED <<users, created>>
    /\ UNCHANGED <<upVars, concVars>>

Next ==
    \/ ListUsersReq
    \/ GetUserReq
    \/ CreateUserReq
    \/ UpdateUserReq
    \/ DeleteUserReq
    \/ UnmatchedReq
    \/ Deliver

Spec == Init /\ [][Next]_vars

\* the upload endpoint alone
SpecUpload == Init /\ [][UploadNext]_vars

\* the create, update and delete handlers step by step, requests in flight together
SpecConc == Init /\ [][ConcNext]_vars

----------------------------------------------------------------------------
(* Properties of the user collection, checked under Spec *)

OnUser == req.path = "/api/users/:id"
OnCreate == req.method = "POST" /\ req.path = "/api/users"

\* the request addresses, by its decimal numeral, the id of a record held
\* when it was received
AddressesHeldId ==
    /\ OnUser
    /\ \E k \in 1..Len(prevUsers) : req.seg = Numeral(prevUsers[k].id)

IsUserNotFound(r) ==
    r.status = 404 /\ ~r.success /\ r.message = "User not found"

\* C1: in every reachable state every record's id is a positive integer and
\* no two records of the collection have the same id.
C1_IdsPositiveAndUnique ==
    /\ \A i \in 1..Len(users) : users[i].id \in Nat \ {0}
    /\ \A i, j \in 1..Len(users) : i # j => users[i].id # users[j].id

\* C2: a create whose body has a truthy name and a truthy email is answered
\* 201, appends exactly one record at the end of the collection, and the
\* record returned has id = (size before) + 1 and the body's name and email.
C2_CreateAppendsWithNextId ==
    (OnCreate /\ Truthy(req.body.name) /\ Truthy(req.body.email)) =>
        /\ res.status = 201
        /\ res.success
        /\ Len(users) = Len(prevUsers) + 1
        /\ SubSeq(users, 1, Len(prevUsers)) = prevUsers
        /\ users[Len(users)] = res.data
        /\ res.data.id = Len(prevUsers) + 1
        /\ res.data.name = req.body.name
        /\ res.data.email = req.body.email

\* the scenario of the fresh collection: three seed records, create Ann, id 4
C2_Witness ==
    /\ OnCreate
    /\ req.body = [name |-> "Ann", email |-> "ann@x.com"]
    /\ prevUsers = SeedUsers
    /\ res.status = 201
    /\ res.data.id = 4
    /\ Len(users) = 4

\* C3: once a create has returned a record with id i, every later
\* GET /api/users/i is answered 200 with exactly that record, as long as no
\* PUT or DELETE was addressed to id i in between.
C3_GetReturnsCreatedRecord ==
    (req.method = "GET" /\ OnUser) =>
        \A c \in created :
            req.seg = Numeral(c.id) => (res.status = 200 /\ res.data = c)

\* C4: a delete that finds the id removes exactly one record, returns it,
\* keeps the other records unchanged and in order, and a GET for the same id
\* issued right afterwards is answered 404 "User not found".
C4_DeleteRemovesOneThenGetNotFound ==
    (req.method = "DELETE" /\ AddressesHeldId) =>
        /\ res.status = 200
        /\ \E k \in 1..Len(prevUsers) :
            /\ res.data = prevUsers[k]
            /\ req.seg = Numeral(prevUsers[k].id)
            /\ users = SubSeq(prevUsers, 1, k - 1)
                         \o SubSeq(prevUsers, k + 1, Len(prevUsers))
        /\ IsUserNotFound(GetUser(users, req.seg).res)

\* C5: an update that finds the id overwrites only those of name and email
\* that are present and truthy in the body; the id, the length and order of
\* the collection and every other record are unchanged.
C5_UpdateOverwritesOnlyTruthyFields ==
    (req.method = "PUT" /\ AddressesHeldId) =>
        /\ res.status = 200
        /\ Len(users) = Len(prevUsers)
        /\ \E k \in 1..Len(prevUsers) :
            /\ req.seg = Numeral(prevUsers[k].id)
            /\ \A j \in 1..Len(prevUsers) : j # k => users[j] = prevUsers[j]
            /\ users[k].id = prevUsers[k].id
            /\ users[k].name = IF req.body.name \in {Undefined, ""}
                               THEN prevUsers[k].name ELSE req.body.name
            /\ users[k].email = IF req.body.email \in {Undefined, ""}
                                THEN prevUsers[k].email ELSE req.body.email
            /\ res.data = users[k]

\* an update with only a name, of a record whose email is kept
C5_Witness ==
    /\ req.method = "PUT"
    /\ AddressesHeldId
    /\ req.body = [name |-> "Ann", email |-> Undefined]
    /\ res.status = 200
    /\ res.data.name = "Ann"
    /\ res.data.email = "jane@example.com"

\* C6: every request that ends in an error response leaves the collection as
\* it was: a create missing name or email is answered 400 "Name and email
\* are required", a GET, PUT or DELETE on an id not in the collection is
\* answered 404 "User not found", and the records, their order and the
\* length are unchanged.
C6_ErrorsLeaveCollectionUnchanged ==
    /\ res.status \in {400, 404} => users = prevUsers
    /\ (OnCreate /\ (req.body.name \in {Undefined, ""} \/ req.body.email \in {Undefined, ""})) =>
        /\ res.status = 400
        /\ ~res.success
        /\ res.message = "Name and email are required"
        /\ users = prevUsers
    /\ (OnUser /\ \E n \in 1..MaxUsers :
                    /\ req.seg = Numeral(n)
                    /\ \A k \in 1..Len(prevUsers) : prevUsers[k].id # n) =>
        /\ IsUserNotFound(res)
        /\ users = prevUsers

\* the scenario: create Ann, delete id 2, then a create without email
C6_Witness ==
    /\ OnCreate
    /\ req.body = [name |-> "Ann", email |-> Undefined]
    /\ res.status = 400
    /\ Len(users) = 3
    /\ users[1].id = 1 /\ users[2].id = 3 /\ users[3].id = 4

\* C8: in every reachable state every record has a truthy name and a truthy
\* email; no update body, also one with an empty-string name or email, makes
\* a stored field empty.
C8_StoredFieldsNonEmpty ==
    \A i \in 1..Len(users) :
        /\ users[i].name \notin {Undefined, ""}
        /\ users[i].email \notin {Undefined, ""}

\* an update carrying empty strings was applied to a held record
C8_Witness ==
    /\ req.method = "PUT"
    /\ AddressesHeldId
    /\ req.body = [name |-> "", email |-> ""]
    /\ res.status = 200

AllDecimalDigits(seg) ==
    seg # <<>> /\ \A i \in 1..Len(seg) : seg[i] \in {"0","1","2","3","4","5","6","7","8","9"}

\* the segment, after leading blanks and one optional sign, begins with a
\* decimal digit
HasLeadingDigit(seg) ==
    \E b \in 0..Len(seg) :
        /\ \A i \in 1..b : seg[i] = " "
        /\ \E g \in 0..1 :
            /\ g = 1 => (Len(seg) > b /\ seg[b + 1] \in {"+", "-"})
            /\ Len(seg) > b + g
            /\ seg[b + g + 1] \in {"0","1","2","3","4","5","6","7","8","9"}

\* C10 as stated: a GET, PUT or DELETE whose :id segment is not a numeric
\* string (also one that begins with digits, such as "2abc") matches no
\* record, is answered 404 "User not found" and leaves the collection
\* unchanged.
C10_NonNumericIdIsNotFound ==
    (OnUser /\ ~AllDecimalDigits(req.seg)) =>
        (IsUserNotFound(res) /\ users = prevUsers)

\* What holds of C10: a GET, PUT or DELETE whose :id segment does not begin,
\* after leading blanks and an optional sign, with a decimal digit is
\* answered 404 "User not found" and leaves the collection unchanged.
C10_NoLeadingDigitIsNotFound ==
    (OnUser /\ ~HasLeadingDigit(req.seg)) =>
        (IsUserNotFound(res) /\ users = prevUsers)

\* a delete addressed to "abc" while the collection holds records
C10_NotFoundReached ==
    /\ req.method = "DELETE"
    /\ OnUser
    /\ req.seg = <<"a","b","c">>
    /\ IsUserNotFound(res)
    /\ Len(users) > 0

----------------------------------------------------------------------------
(* Properties of the upload endpoint, checked under SpecUpload *)

Answered(r) == up[r].pc = "done" /\ up[r].hasFile

ValidFile(r) == up[r].mimetype \in AllowedTypes /\ up[r].size <= FileSizeLimit

\* C7: for every upload carrying a file, the file is in the uploads
\* directory and the response is 200 with filename, MIME type, size and path
\* if and only if its type is one of image/jpeg, image/png, image/gif and its
\* size is at most 5 MiB; otherwise the response is 400 with success false
\* and, once the request has completed, the directory holds no file of that
\* request.
C7_StoredAndOkIffValid ==
    \A r \in 1..MaxUploads :
        Answered(r) =>
            /\ ValidFile(r) =>
                /\ up[r].res.status = 200
                /\ up[r].res.success
                /\ up[r].res.file.filename = Filename(up[r].path.ts, up[r].originalname)
                /\ up[r].res.file.mimetype = up[r].mimetype
                /\ up[r].res.file.size = up[r].size
                /\ up[r].res.file.path = up[r].path
                /\ up[r].inDirAtResponse
            /\ ~ValidFile(r) =>
                /\ up[r].res.status = 400
                /\ ~up[r].res.success
                /\ ~up[r].inDirAtResponse

\* no other upload stores under the path of upload r
PathNotShared(r) ==
    \A q \in 1..MaxUploads : (q # r /\ up[q].path # NoPath) => up[q].path # up[r].path

\* C7 for the uploads whose generated filename no other upload shares
C7_HoldsWhenFilenameUnique ==
    \A r \in 1..MaxUploads :
        (Answered(r) /\ PathNotShared(r)) =>
            /\ ValidFile(r) =>
                /\ up[r].res.status = 200
                /\ up[r].res.file.size = up[r].size
                /\ up[r].inDirAtResponse
                /\ up[r].path \in DOMAIN uploadsDir
                /\ uploadsDir[up[r].path] = up[r].size
            /\ ~ValidFile(r) =>
                /\ up[r].res.status = 400
                /\ ~up[r].res.success
                /\ up[r].path \notin DOMAIN uploadsDir

----------------------------------------------------------------------------
(* Properties of concurrent requests, checked under SpecConc *)

\* the atomic effect of one request on the collection
Apply(us, q) ==
    IF q.method = "POST" THEN PostUser(us, q.body)
    ELSE IF q.method = "PUT" THEN PutUser(us, q.seg, q.body)
    ELSE DeleteUser(us, q.seg)

\* the collection after the requests of sequence ord ran one after another
RECURSIVE Sequentially(_, _)
Sequentially(us, ord) ==
    IF ord = <<>> THEN us
    ELSE Sequentially(Apply(us, inflight[Head(ord)].req).users, Tail(ord))

Entered == {order[i] : i \in 1..Len(order)}

\* the orders in which the entered requests can be run one after another
Orders ==
    {o \in [1..Len(order) -> Entered] : \A i, j \in 1..Len(order) : i # j => o[i] # o[j]}

InHandler(r) == inflight[r].pc \notin {"idle", "queued", "done"}

\* C9: with several create, update and delete requests in flight, each
\* handler's lookup, validation and mutation run as one uninterrupted step:
\* at most one handler is in progress, no two creates hold a record built
\* from the same collection length, and whenever no handler is in progress
\* the collection and every response given equal those of one sequential
\* execution of the requests handled.
C9_HandlersAreSerializable ==
    /\ \A r1, r2 \in 1..MaxRequests : (InHandler(r1) /\ InHandler(r2)) => r1 = r2
    /\ \A r1, r2 \in 1..MaxRequests :
        (r1 # r2 /\ inflight[r1].pc = "push" /\ inflight[r2].pc = "push")
            => inflight[r1].newUser.id # inflight[r2].newUser.id
    /\ running = 0 =>
        \E o \in Orders :
            /\ users = Sequentially(SeedUsers, o)
            /\ \A k \in 1..Len(order) :
                inflight[o[k]].res =
                    Apply(Sequentially(SeedUsers, SubSeq(o, 1, k - 1)), inflight[o[k]].req).res

\* two creates were in flight together and both have been answered 201
C9_Witness ==
    /\ running = 0
    /\ Len(order) = 2
    /\ \A r \in 1..2 :
        /\ inflight[r].pc = "done"
        /\ inflight[r].req.method = "POST"
        /\ inflight[r].res.status = 201
    /\ inflight[1].res.data.id # inflight[2].res.data.id

====
